---------------------------- MODULE Spec2Model ----------------------------
(***************************************************************************)
(* A model of scripts/generate_reports.py (descartes-reneri): the          *)
(* descriptor parser, the test-identifier patterns, the pointcut pattern,  *)
(* the Mutation / Location / Diff indices and the assembly of one          *)
(* diagnostic record per hint.                                             *)
(*                                                                         *)
(* A Python string is modelled as a sequence of chunks.  A chunk is a      *)
(* TLA+ string standing for one or more consecutive characters; every      *)
(* character a grammar treats specially ("(", "[", ";", "|", "#", a digit, *)
(* a JVM type letter ...) is a chunk of its own, and a longer chunk holds  *)
(* only ordinary name characters.  Cat flattens chunks into the string     *)
(* they spell, so that two Python strings are equal exactly when their     *)
(* flattenings are.  A Python dict is a sequence of <<key, value>> pairs   *)
(* in insertion order.                                                     *)
(*                                                                         *)
(* A local value used more than once is bound by a one-element set,        *)
(* CHOOSE r \in {body : x \in {value}} : TRUE, which is the value of body  *)
(* with x standing for value: the value is then computed once.             *)
(***************************************************************************)
EXTENDS Integers, Sequences, FiniteSets, TLC

VARIABLES
    pc,                 \* where the run stands
    input,              \* the artifacts read by the run
    result,             \* what a parser / loader returned (pure-function runs)
    test_cases,         \* the Mutation Index (load_test_cases)
    method_locations,   \* the Location Index (load_method_locations)
    folder,             \* index of the hint folder being processed
    reports,            \* reports[k]: the records written for hint folder k
    raised              \* the exception that ended the run, or "none"

vars == <<pc, input, result, test_cases, method_locations, folder, reports, raised>>

(***************************************************************************)
(* Strings                                                                 *)
(***************************************************************************)
EOF == ""

\* the chunk at position i, or EOF past the end
Tok(s, i) == IF i >= 1 /\ i <= Len(s) THEN s[i] ELSE EOF

RECURSIVE CatRange(_, _, _)
\* the string spelled by chunks i .. j-1
CatRange(s, i, j) == IF i >= j THEN "" ELSE s[i] \o CatRange(s, i + 1, j)

Cat(s) == CatRange(s, 1, Len(s) + 1)

RECURSIVE JoinStr(_, _)
\* Python's sep.join(list)
JoinStr(sep, l) ==
    IF l = <<>> THEN ""
    ELSE IF Len(l) = 1 THEN l[1]
    ELSE l[1] \o sep \o JoinStr(sep, Tail(l))

RECURSIVE Repeat(_, _)
\* Python's str * n
Repeat(str, n) == IF n <= 0 THEN "" ELSE str \o Repeat(str, n - 1)

RECURSIVE SeqsUpTo(_, _)
\* all sequences over S of length 0 .. n
SeqsUpTo(S, n) ==
    IF n = 0 THEN {<<>>}
    ELSE LET shorter == SeqsUpTo(S, n - 1)
         IN  shorter \cup {Append(q, x) : q \in shorter, x \in S}

RECURSIVE Flatten(_)
\* the concatenation of a sequence of sequences
Flatten(ss) == IF ss = <<>> THEN <<>> ELSE Head(ss) \o Flatten(Tail(ss))

Range(f) == {f[i] : i \in DOMAIN f}

(***************************************************************************)
(* Descriptor parser (create_description_parser)                           *)
(***************************************************************************)
NoParse == [ok |-> FALSE, val |-> "", pos |-> 0]

Parsed(v, p) == [ok |-> TRUE, val |-> v, pos |-> p]

JVM_PRIMITIVE_TYPES ==
    [B |-> "byte", C |-> "char", D |-> "double", F |-> "float",
     I |-> "int", J |-> "long", S |-> "short", Z |-> "boolean"]

\* the regex [^\.;\[/\(\):] of QUALIFIED_NAME, one chunk at a time
NameChunk(c) == c # EOF /\ c \notin {".", ";", "[", "/", "(", ")", ":"}

RECURSIVE NameEnd(_, _)
\* the position after the longest run of name chunks starting at i
NameEnd(s, i) == IF NameChunk(Tok(s, i)) THEN NameEnd(s, i + 1) ELSE i

RECURSIVE MoreSegments(_, _, _)
\* (string('/') >> segment).many(): a '/' not followed by a segment is left
MoreSegments(s, i, acc) ==
    CHOOSE r \in
        {IF Tok(s, i) = "/" /\ e > i + 1
         THEN MoreSegments(s, e, Append(acc, CatRange(s, i + 1, e)))
         ELSE [segs |-> acc, pos |-> i] : e \in {NameEnd(s, i + 1)}} : TRUE

\* regex(...).sep_by(string('/')).combine(joining('.'))
QUALIFIED_NAME(s, i) ==
    CHOOSE r \in
        {IF e > i
         THEN CHOOSE q \in {Parsed(JoinStr(".", m.segs), m.pos) :
                               m \in {MoreSegments(s, e, <<CatRange(s, i, e)>>)}} : TRUE
         ELSE Parsed("", i) : e \in {NameEnd(s, i)}} : TRUE

\* regex('[BCDFIJSZ]').map(lambda i: JVM_PRIMITIVE_TYPES[i])
PRIMITIVE_TYPE(s, i) ==
    IF Tok(s, i) \in DOMAIN JVM_PRIMITIVE_TYPES
    THEN Parsed(JVM_PRIMITIVE_TYPES[Tok(s, i)], i + 1)
    ELSE NoParse

\* CLASS_NAME with the ';' optional
ClassNameLoose(s, i) ==
    IF Tok(s, i) # "L" THEN NoParse
    ELSE CHOOSE r \in
            {IF Tok(s, q.pos) = ";" THEN Parsed(q.val, q.pos + 1)
             ELSE Parsed(q.val, q.pos) : q \in {QUALIFIED_NAME(s, i + 1)}} : TRUE

\* string('L') >> QUALIFIED_NAME << string(';')
CLASS_NAME(s, i) ==
    IF Tok(s, i) # "L" THEN NoParse
    ELSE CHOOSE r \in
            {IF Tok(s, q.pos) = ";" THEN Parsed(q.val, q.pos + 1) ELSE NoParse :
                q \in {QUALIFIED_NAME(s, i + 1)}} : TRUE

RECURSIVE BracketEnd(_, _)
\* the position after the run of '[' starting at i
BracketEnd(s, i) == IF Tok(s, i) = "[" THEN BracketEnd(s, i + 1) ELSE i

\* PRIMITIVE_TYPE | CLASS_NAME
ElementType(s, i) ==
    IF PRIMITIVE_TYPE(s, i).ok THEN PRIMITIVE_TYPE(s, i) ELSE CLASS_NAME(s, i)

\* seq(string('[').at_least(1) ..., PRIMITIVE_TYPE | CLASS_NAME)
ARRAY(s, i) ==
    CHOOSE r \in
        {IF e > i
         THEN CHOOSE a \in
                 {IF t.ok THEN Parsed(t.val \o Repeat("[]", e - i), t.pos)
                  ELSE NoParse : t \in {ElementType(s, e)}} : TRUE
         ELSE NoParse : e \in {BracketEnd(s, i)}} : TRUE

\* PRIMITIVE_TYPE | CLASS_NAME | ARRAY
TYPE(s, i) ==
    IF PRIMITIVE_TYPE(s, i).ok THEN PRIMITIVE_TYPE(s, i)
    ELSE CHOOSE r \in {IF c.ok THEN c ELSE ARRAY(s, i) : c \in {CLASS_NAME(s, i)}} : TRUE

\* string('V').map(lambda _: 'void') | TYPE
RETURN_TYPE(s, i) ==
    IF Tok(s, i) = "V" THEN Parsed("void", i + 1) ELSE TYPE(s, i)

RECURSIVE ManyTypes(_, _, _)
\* TYPE.many()
ManyTypes(s, i, acc) ==
    CHOOSE r \in
        {IF t.ok THEN ManyTypes(s, t.pos, Append(acc, t.val))
         ELSE [types |-> acc, pos |-> i] : t \in {TYPE(s, i)}} : TRUE

NoDescription == [ok |-> FALSE, sig |-> "", rt |-> "", pos |-> 0]

\* ')' >> RETURN_TYPE after the parameters m, and the combine of the two results
Combined(s, m) ==
    IF Tok(s, m.pos) # ")" THEN NoDescription
    ELSE CHOOSE d \in
            {IF ~r.ok THEN NoDescription
             ELSE [ok  |-> TRUE,
                   sig |-> "(" \o JoinStr(",", m.types) \o ")",
                   rt  |-> r.val,
                   pos |-> r.pos] : r \in {RETURN_TYPE(s, m.pos + 1)}} : TRUE

\* seq(string('(') >> TYPE.many()..., string(')') >> RETURN_TYPE).combine(...)
DESCRIPTION(s, i) ==
    IF Tok(s, i) # "(" THEN NoDescription
    ELSE CHOOSE d \in {Combined(s, m) : m \in {ManyTypes(s, i + 1, <<>>)}} : TRUE

\* DESCRIPTION_PARSER.parse(description): the whole string must be consumed
DESCRIPTION_PARSER(s) ==
    CHOOSE r \in {IF d.ok /\ d.pos = Len(s) + 1 THEN d ELSE NoDescription :
                     d \in {DESCRIPTION(s, 1)}} : TRUE

\* signature(description); defined when DESCRIPTION_PARSER(s).ok, a ParseError otherwise
signature(s) == DESCRIPTION_PARSER(s).sig

\* is_void(description)
is_void(s) == DESCRIPTION_PARSER(s).rt = "void"

(***************************************************************************)
(* Python dicts, in insertion order                                        *)
(***************************************************************************)
DictKeys(d) == {d[k].key : k \in DOMAIN d}

\* d.get(key, default)
DictGet(d, key, default) ==
    IF key \in DictKeys(d)
    THEN d[CHOOSE k \in DOMAIN d : d[k].key = key].value
    ELSE default

\* d[key] = value: a key already present keeps its place and takes the new value
DictSet(d, key, value) ==
    IF key \in DictKeys(d)
    THEN [k \in DOMAIN d |-> IF d[k].key = key
                             THEN [key |-> key, value |-> value] ELSE d[k]]
    ELSE Append(d, [key |-> key, value |-> value])

\* list(d.values())
DictValues(d) == [k \in DOMAIN d |-> d[k].value]

(***************************************************************************)
(* Test identifiers (TEST_CLASS_PATTERN, TEST_CASE_PATTERN)                *)
(* An identifier is matched one character at a time: its chunks are single *)
(* characters.                                                             *)
(***************************************************************************)
NoMatch == [matched |-> FALSE]

\* ^(?P<class>.+)\.(?P=class)$ : a string of the shape c.c
TEST_CLASS_PATTERN(s) ==
    LET n == Len(s)
        h == (n - 1) \div 2
    IN  IF /\ n >= 3
           /\ n % 2 = 1
           /\ s[h + 1] = "."
           /\ SubSeq(s, 1, h) = SubSeq(s, h + 2, n)
        THEN [matched |-> TRUE, groups |-> {"class"},
              class |-> CatRange(s, 1, h + 1)]
        ELSE NoMatch

\* (\[.*\])? : nothing, or a bracketed text
ParamsText(p) == p = <<>> \/ (Len(p) >= 2 /\ p[1] = "[" /\ p[Len(p)] = "]")

\* ((?P<params>\[.*\])?\((?P=class)?\))?$ from position j, class being s[1..i]
CaseTail(s, i, j) ==
    LET r == SubSeq(s, j, Len(s))
        closes(a) == /\ Len(r) >= Len(a)
                     /\ SubSeq(r, Len(r) - Len(a) + 1, Len(r)) = a
                     /\ ParamsText(SubSeq(r, 1, Len(r) - Len(a)))
    IN  \/ r = <<>>
        \/ closes(<<"(", ")">>)
        \/ closes(<<"(">> \o SubSeq(s, 1, i) \o <<")">>)

\* class = s[1..i], a '.', method = s[i+2..j-1] without '[', then the tail
CaseSplit(s, i, j) ==
    /\ i >= 1
    /\ i + 1 <= Len(s)
    /\ s[i + 1] = "."
    /\ j >= i + 3
    /\ j <= Len(s) + 1
    /\ \A k \in (i + 2) .. (j - 1) : s[k] # "["
    /\ CaseTail(s, i, j)

\* ^(?P<class>.+)\.(?P<method>[^\[]+)((?P<params>\[.*\])?\((?P=class)?\))?$
\* both groups are greedy: the longest class, then the longest method
TEST_CASE_PATTERN(s) ==
    LET splits == {ij \in (1 .. Len(s)) \X (1 .. Len(s) + 1) :
                        CaseSplit(s, ij[1], ij[2])}
    IN  IF splits = {} THEN NoMatch
        ELSE LET i == CHOOSE a \in {ij[1] : ij \in splits} :
                          \A ij \in splits : ij[1] <= a
                 j == CHOOSE b \in {ij[2] : ij \in {x \in splits : x[1] = i}} :
                          \A ij \in {x \in splits : x[1] = i} : ij[2] <= b
             IN  [matched |-> TRUE, groups |-> {"class", "method", "params"},
                  class |-> CatRange(s, 1, i + 1),
                  method |-> CatRange(s, i + 2, j)]

\* TEST_CLASS_PATTERN.match(test_case) or TEST_CASE_PATTERN.match(test_case)
match_test_case(s) ==
    IF TEST_CLASS_PATTERN(s).matched THEN TEST_CLASS_PATTERN(s)
    ELSE TEST_CASE_PATTERN(s)

(***************************************************************************)
(* Mutation Index (load_test_cases)                                        *)
(***************************************************************************)
\* mutation_id(**mutation)
mutation_id(package, class, method, description, mutator) ==
    package \o "." \o class \o "." \o method \o Cat(description) \o mutator

SURVIVED == "SURVIVED"

RECURSIVE NewTests(_, _)
\* the loop over mutation['tests']['ordered'], new_tests being the list so far;
\* match.group("method") raises IndexError when the match has no such group
NewTests(tests, new_tests) ==
    IF tests = <<>> THEN [raised |-> "none", tests |-> new_tests]
    ELSE LET match == match_test_case(Head(tests))
         IN  IF ~match.matched
             THEN NewTests(Tail(tests),
                           Append(new_tests, [class |-> Cat(Head(tests))]))
             ELSE IF "method" \notin match.groups
             THEN [raised |-> "IndexError", tests |-> <<>>]
             ELSE NewTests(Tail(tests),
                           Append(new_tests, [class |-> match.class,
                                              method |-> match.method]))

\* the filter of load_test_cases without its test
KeepsEveryStatus(status) == TRUE

\* the filter of load_test_cases: mutation['status'] != 'SURVIVED' -> continue
Kept(status) == status = SURVIVED

RECURSIVE LoadTestCases(_, _)
\* the loop of load_test_cases over data['mutations'], result being the dict so far
LoadTestCases(mutations, index) ==
    IF mutations = <<>> THEN [raised |-> "none", index |-> index]
    ELSE LET mutation == Head(mutations)
             new      == NewTests(mutation.tests, <<>>)
         IN  IF ~Kept(mutation.status)
             THEN LoadTestCases(Tail(mutations), index)
             ELSE IF new.raised # "none"
             THEN [raised |-> new.raised, index |-> <<>>]
             ELSE LoadTestCases(
                      Tail(mutations),
                      DictSet(index,
                              mutation_id(mutation.method.package,
                                          mutation.method.class,
                                          mutation.method.name,
                                          mutation.method.description,
                                          mutation.mutator),
                              new.tests))

\* load_test_cases(mutation_report)
load_test_cases(report) == LoadTestCases(report, <<>>)

(***************************************************************************)
(* Pointcut pattern (POINTCUT_PATTERN) and Diff Index (load_diffs)         *)
(***************************************************************************)
\* Python's None, and a value that is present
None == <<>>

Some(x) == <<x>>

Digits == {"0", "1", "2", "3", "4", "5", "6", "7", "8", "9"}

RECURSIVE NotBarEnd(_, _)
\* [^\|]+ : the position after the longest run without '|' starting at i
NotBarEnd(s, i) ==
    IF Tok(s, i) # EOF /\ Tok(s, i) # "|" THEN NotBarEnd(s, i + 1) ELSE i

RECURSIVE DigitEnd(_, _)
\* \d+ : the position after the longest run of digits starting at i
DigitEnd(s, i) == IF Tok(s, i) \in Digits THEN DigitEnd(s, i + 1) ELSE i

RECURSIVE FieldEnd(_, _)
\* [^\#\|]+ : the position after the longest run without '#' and '|'
FieldEnd(s, i) ==
    IF Tok(s, i) # EOF /\ Tok(s, i) \notin {"#", "|"} THEN FieldEnd(s, i + 1) ELSE i

NoGroups ==
    [class |-> None, method |-> None, description |-> None, invocation |-> None,
     result |-> None, that |-> None, argument |-> None, expression |-> None,
     exception |-> None, field |-> None, size |-> None, length |-> None]

NoBranch == [ok |-> FALSE, groups |-> NoGroups, pos |-> 0]

\* (?P<description>[^\|]+)\|(?P<invocation>\d+)\|\#(result|that|(?P<argument>\d+))
DescriptionBranch(s, b, g) ==
    LET de == NotBarEnd(s, b)
        ie == DigitEnd(s, de + 1)
        t  == ie + 2
        ae == DigitEnd(s, t)
        gd == [g EXCEPT !.description = Some(CatRange(s, b, de)),
                        !.invocation = Some(CatRange(s, de + 1, ie))]
    IN  IF ~(/\ de > b
             /\ Tok(s, de) = "|"
             /\ ie > de + 1
             /\ Tok(s, ie) = "|"
             /\ Tok(s, ie + 1) = "#")
        THEN NoBranch
        ELSE IF Tok(s, t) = "result"
        THEN [ok |-> TRUE, groups |-> [gd EXCEPT !.result = Some("result")], pos |-> t + 1]
        ELSE IF Tok(s, t) = "that"
        THEN [ok |-> TRUE, groups |-> [gd EXCEPT !.that = Some("that")], pos |-> t + 1]
        ELSE IF ae > t
        THEN [ok |-> TRUE, groups |-> [gd EXCEPT !.argument = Some(CatRange(s, t, ae))],
              pos |-> ae]
        ELSE NoBranch

\* (?P<expression>\d+)|(?P<exception>!)
ExpressionBranch(s, b, g) ==
    LET ee == DigitEnd(s, b)
    IN  IF ee > b
        THEN [ok |-> TRUE, groups |-> [g EXCEPT !.expression = Some(CatRange(s, b, ee))],
              pos |-> ee]
        ELSE IF Tok(s, b) = "!"
        THEN [ok |-> TRUE, groups |-> [g EXCEPT !.exception = Some("!")], pos |-> b + 1]
        ELSE NoBranch

\* the suffixes with |#size and |#length read only after a field
SuffixedAfterField(s, q, g) ==
    LET fe == FieldEnd(s, q + 1)
        hasField == Tok(s, q) = "|" /\ fe > q + 1
        hasSize == hasField /\ Tok(s, fe) = "|" /\ Tok(s, fe + 1) = "#"
                   /\ Tok(s, fe + 2) \in {"size", "length"}
        gf == IF hasField THEN [g EXCEPT !.field = Some(CatRange(s, q + 1, fe))] ELSE g
    IN  IF ~hasField THEN [groups |-> g, pos |-> q]
        ELSE IF ~hasSize THEN [groups |-> gf, pos |-> fe]
        ELSE IF Tok(s, fe + 2) = "size"
        THEN [groups |-> [gf EXCEPT !.size = Some("size")], pos |-> fe + 3]
        ELSE [groups |-> [gf EXCEPT !.length = Some("length")], pos |-> fe + 3]

\* (\|(?P<field>[^\#\|]+))?  then  (\|\#((?P<size>size)|(?P<length>length)))?
Suffixed(s, q, g) ==
    LET fe == FieldEnd(s, q + 1)
        hasField == Tok(s, q) = "|" /\ fe > q + 1
        gf == IF hasField THEN [g EXCEPT !.field = Some(CatRange(s, q + 1, fe))] ELSE g
        qf == IF hasField THEN fe ELSE q
        hasSize == Tok(s, qf) = "|" /\ Tok(s, qf + 1) = "#"
                   /\ Tok(s, qf + 2) \in {"size", "length"}
    IN  IF ~hasSize THEN [groups |-> gf, pos |-> qf]
        ELSE IF Tok(s, qf + 2) = "size"
        THEN [groups |-> [gf EXCEPT !.size = Some("size")], pos |-> qf + 3]
        ELSE [groups |-> [gf EXCEPT !.length = Some("length")], pos |-> qf + 3]

NoPointcut == [matched |-> FALSE, groupdict |-> NoGroups, end |-> 0]

\* the match of the pattern at the start of s; end is the position after it
PatternMatch(s) ==
    LET ce == NotBarEnd(s, 1)
        ms == ce + 1
        me == NotBarEnd(s, ms)
        b  == me + 1
        g  == [NoGroups EXCEPT !.class = Some(CatRange(s, 1, ce)),
                               !.method = Some(CatRange(s, ms, me))]
        d  == DescriptionBranch(s, b, g)
        br == IF d.ok THEN d ELSE ExpressionBranch(s, b, g)
        sf == Suffixed(s, br.pos, br.groups)
    IN  IF ~(ce > 1 /\ Tok(s, ce) = "|" /\ me > ms /\ Tok(s, me) = "|" /\ br.ok)
        THEN NoPointcut
        ELSE [matched |-> TRUE, groupdict |-> sf.groups, end |-> sf.pos]

\* POINTCUT_PATTERN.match(string): the pattern has no end anchor and match()
\* does not ask for one, so text after the match is ignored
POINTCUT_PATTERN(s) == PatternMatch(s)

\* the filter of load_diffs testing len(entry['expected']) >= 1
KeepsNonEmpty(entry) == Len(entry.expected) >= 1

\* the filter of load_diffs: len(entry['expected']) == 1
KeptEntry(entry) == Len(entry.expected) = 1

RECURSIVE LoadDiffs(_, _)
\* the dict comprehension of load_diffs over diff_data, diffs being the dict so far
LoadDiffs(diff_data, diffs) ==
    IF diff_data = <<>> THEN [raised |-> "none", diffs |-> diffs]
    ELSE LET entry == Head(diff_data)
             match == POINTCUT_PATTERN(entry.pointcut)
         IN  IF ~KeptEntry(entry)
             THEN LoadDiffs(Tail(diff_data), diffs)
             ELSE IF ~match.matched
             THEN [raised |-> "AttributeError", diffs |-> <<>>]
             ELSE IF entry.unexpected = <<>>
             THEN [raised |-> "IndexError", diffs |-> <<>>]
             ELSE LoadDiffs(
                      Tail(diff_data),
                      DictSet(diffs, Cat(entry.pointcut),
                              [pointcut |-> match.groupdict,
                               expected |-> entry.expected[1],
                               observed |-> entry.unexpected[1]]))

\* a file that does not exist, and a file holding x
Missing == None

File(x) == Some(x)

\* load_diffs without the test of exists(diff_file_path)
LoadDiffsUnguarded(diff) ==
    IF diff = Missing THEN [raised |-> "FileNotFoundError", diffs |-> <<>>]
    ELSE LoadDiffs(diff[1], <<>>)

\* load_diffs(hint_folder): diff is diff.json, File(its entries) or Missing
load_diffs(diff) ==
    IF diff = Missing THEN [raised |-> "none", diffs |-> <<>>]
    ELSE LoadDiffs(diff[1], <<>>)

(***************************************************************************)
(* Location Index (load_method_locations)                                  *)
(***************************************************************************)
RECURSIVE IntOf(_, _)
\* int(text) for a text of decimal digits, acc being the value read so far
IntOf(digits, acc) ==
    IF digits = <<>> THEN acc
    ELSE IntOf(Tail(digits),
               10 * acc + (CHOOSE v \in 0 .. 9 :
                              Head(digits) = <<"0", "1", "2", "3", "4",
                                               "5", "6", "7", "8", "9">>[v + 1]))

RECURSIVE LoadMethodLocations(_, _)
\* the dict comprehension of load_method_locations over the <mutation> elements
LoadMethodLocations(mutations, locations) ==
    IF mutations = <<>> THEN [raised |-> "none", locations |-> locations]
    ELSE LET mutation == Head(mutations)
         IN  IF mutation.status # SURVIVED
             THEN LoadMethodLocations(Tail(mutations), locations)
             ELSE IF ~(mutation.lineNumber # <<>>
                       /\ \A k \in DOMAIN mutation.lineNumber :
                             mutation.lineNumber[k] \in Digits)
             THEN [raised |-> "ValueError", locations |-> <<>>]
             ELSE LoadMethodLocations(
                      Tail(mutations),
                      DictSet(locations,
                              mutation.mutatedClass \o "." \o mutation.mutatedMethod
                                  \o Cat(mutation.methodDescription),
                              IntOf(mutation.lineNumber, 0)))

\* load_method_locations without the test of the status
LoadEveryStatus(xml) ==
    LoadMethodLocations([k \in DOMAIN xml |-> [xml[k] EXCEPT !.status = SURVIVED]],
                        <<>>)

\* load_method_locations(xml_mutation_report)
load_method_locations(xml) == LoadMethodLocations(xml, <<>>)

(***************************************************************************)
(* Diagnostic records (get_hints)                                          *)
(***************************************************************************)
\* method_name(method_obj); a ParseError unless the descriptor parses
method_name(method_obj) ==
    method_obj.class \o "." \o method_obj.method \o signature(method_obj.desc)

\* every method_name of the list is defined
Resolvable(methods) ==
    \A k \in DOMAIN methods : DESCRIPTION_PARSER(methods[k].desc).ok

\* [method_name(entry) for entry in methods]
Resolved(methods) == [k \in DOMAIN methods |-> method_name(methods[k])]

\* the test of mutated_method_is_accessible without the package
AccessibleByClassName(mutation_data, targets) ==
    (mutation_data.class \o "." \o mutation_data.method
        \o signature(mutation_data.description)) \in Range(targets)

\* mutated_method_is_accessible(mutation_data, targets)
mutated_method_is_accessible(mutation_data, targets) ==
    (mutation_data.package \o "." \o mutation_data.class \o "."
        \o mutation_data.method \o signature(mutation_data.description))
    \in Range(targets)

Failed(error) == [raised |-> error, hint |-> None]

\* the hint dict built from one item of hints.json (lines 179-189)
Classified(item, mutation_data) ==
    LET infection == item.hint_type = "infection"
        observation == item.hint_type = "observation"
    IN  IF infection /\ item.entry_points = None THEN Failed("KeyError")
        ELSE IF infection /\ ~Resolvable(item.entry_points[1]) THEN Failed("ParseError")
        ELSE IF infection /\ ~DESCRIPTION_PARSER(mutation_data.description).ok
        THEN Failed("ParseError")
        ELSE IF observation /\ item.location = None THEN Failed("KeyError")
        ELSE IF item.accessors # None /\ ~Resolvable(item.accessors[1])
        THEN Failed("ParseError")
        ELSE [raised |-> "none",
              hint |-> Some(
                [type |-> item.hint_type,
                 targets |->
                    IF item.accessors # None THEN Some(Resolved(item.accessors[1]))
                    ELSE IF infection THEN Some(Resolved(item.entry_points[1]))
                    ELSE None,
                 direct_access |->
                    IF infection
                    THEN Some(mutated_method_is_accessible(
                                  mutation_data, Resolved(item.entry_points[1])))
                    ELSE None,
                 location |-> IF observation THEN item.location ELSE None])]

\* the selection with the lookup by pointcut winning when it succeeds
LookupFirst(item, diffs) ==
    IF item.pointcut # None /\ Cat(item.pointcut[1]) \in DictKeys(diffs)
    THEN Some(DictGet(diffs, Cat(item.pointcut[1]), None))
    ELSE IF diffs # <<>> THEN Some(DictValues(diffs)[1]) ELSE None

\* the selection of the diff (lines 191-195): the lookup by pointcut, then
\* diff_list[0] whenever diff_list is not empty
concrete_diff(item, diffs) ==
    LET looked_up == IF item.pointcut # None
                        /\ Cat(item.pointcut[1]) \in DictKeys(diffs)
                     THEN Some(DictGet(diffs, Cat(item.pointcut[1]), None))
                     ELSE None
    IN  IF DictValues(diffs) # <<>> THEN Some(DictValues(diffs)[1]) ELSE looked_up

\* the tests of a record taken from mutation.json alone
RawTests(mutation_data, index) == mutation_data.tests

\* test_cases.get(mutation_id(**mutation_data), mutation_data['tests'])
tests_of(mutation_data, index) ==
    DictGet(index,
            mutation_id(mutation_data.package, mutation_data.class,
                        mutation_data.method, mutation_data.description,
                        mutation_data.mutator),
            mutation_data.tests)

\* method_locations.get(f'{package}.{class}.{method}{description}', None)
line_of(mutation_data, locations) ==
    LET key == mutation_data.package \o "." \o mutation_data.class \o "."
               \o mutation_data.method \o Cat(mutation_data.description)
    IN  IF key \in DictKeys(locations) THEN Some(DictGet(locations, key, 0)) ELSE None

\* the dict yielded for one hint (lines 200-214)
Record(mutation_data, hint, diff, index, locations) ==
    [mutation |->
        [mutator |-> mutation_data.mutator,
         full_class_name |-> mutation_data.package \o "." \o mutation_data.class,
         method |-> mutation_data.method,
         description |-> Cat(mutation_data.description),
         signature |-> signature(mutation_data.description),
         is_void |-> is_void(mutation_data.description),
         tests |-> tests_of(mutation_data, index),
         line |-> line_of(mutation_data, locations)],
     hint |-> hint,
     diff |-> diff]

\* hints.json with only its first hint kept
FirstHintOnly(hints) ==
    IF ~hints.is_list THEN <<hints.object[1]>>
    ELSE IF hints.list = <<>> THEN <<>> ELSE <<Head(hints.list)>>

\* if type(hint_data) != list: hint_data = [hint_data]
hint_data(hints) == IF hints.is_list THEN hints.list ELSE <<hints.object[1]>>

RECURSIVE Yielded(_, _, _, _, _, _)
\* the loop of get_hints over hint_data, records being what was yielded so far
Yielded(items, mutation_data, diffs, index, locations, records) ==
    IF items = <<>> THEN [raised |-> "none", records |-> records]
    ELSE LET item == Head(items)
             c    == Classified(item, mutation_data)
         IN  IF c.raised # "none" THEN [raised |-> c.raised, records |-> records]
             ELSE IF ~DESCRIPTION_PARSER(mutation_data.description).ok
             THEN [raised |-> "ParseError", records |-> records]
             ELSE Yielded(Tail(items), mutation_data, diffs, index, locations,
                          Append(records,
                                 Record(mutation_data, c.hint[1],
                                        concrete_diff(item, diffs),
                                        index, locations)))

\* get_hints(hint_folder, test_cases, method_locations), run to its end:
\* what it yielded and the exception that ended it, if any
get_hints(hint_folder, index, locations) ==
    IF hint_folder.mutation = Missing
    THEN [raised |-> "FileNotFoundError", records |-> <<>>]
    ELSE IF load_diffs(hint_folder.diff).raised # "none"
    THEN [raised |-> load_diffs(hint_folder.diff).raised, records |-> <<>>]
    ELSE Yielded(hint_data(hint_folder.hints), hint_folder.mutation[1],
                 load_diffs(hint_folder.diff).diffs, index, locations, <<>>)

(***************************************************************************)
(* The run over a project (generate_report_for_project)                    *)
(***************************************************************************)
Abort(error) ==
    /\ raised' = error
    /\ pc' = "aborted"

\* test_cases = load_test_cases(join(folder, 'mutations.json'))
LoadReport ==
    /\ pc = "start"
    /\ IF input.report = Missing
       THEN Abort("FileNotFoundError") /\ UNCHANGED test_cases
       ELSE LET loaded == load_test_cases(input.report[1])
            IN  IF loaded.raised # "none"
                THEN Abort(loaded.raised) /\ UNCHANGED test_cases
                ELSE /\ test_cases' = loaded.index
                     /\ pc' = "locations"
                     /\ UNCHANGED raised
    /\ UNCHANGED <<input, result, method_locations, folder, reports>>

\* method_locations = load_method_locations(xml) if exists(xml) else {}
LoadLocations ==
    /\ pc = "locations"
    /\ IF input.xml = Missing
       THEN /\ method_locations' = <<>>
            /\ pc' = "folders"
            /\ folder' = 1
            /\ UNCHANGED raised
       ELSE LET loaded == load_method_locations(input.xml[1])
            IN  IF loaded.raised # "none"
                THEN Abort(loaded.raised) /\ UNCHANGED <<method_locations, folder>>
                ELSE /\ method_locations' = loaded.locations
                     /\ pc' = "folders"
                     /\ folder' = 1
                     /\ UNCHANGED raised
    /\ UNCHANGED <<input, result, test_cases, reports>>

\* one turn of the loop over all_hints: generate_readable_report(dirname(hint_file), ...)
\* writes what get_hints yields; an exception of get_hints is not caught
GenerateReadableReport ==
    /\ pc = "folders"
    /\ folder <= Len(input.folders)
    /\ LET got == get_hints(input.folders[folder], test_cases, method_locations)
       IN  /\ reports' = Append(reports, got.records)
           /\ IF got.raised # "none"
              THEN Abort(got.raised) /\ UNCHANGED folder
              ELSE /\ folder' = folder + 1
                   /\ UNCHANGED <<pc, raised>>
    /\ UNCHANGED <<input, result, test_cases, method_locations>>

\* the loop over all_hints is over
Finish ==
    /\ pc = "folders"
    /\ folder > Len(input.folders)
    /\ pc' = "done"
    /\ UNCHANGED <<input, result, test_cases, method_locations, folder, reports, raised>>

Next == LoadReport \/ LoadLocations \/ GenerateReadableReport \/ Finish

(***************************************************************************)
(* Descriptors given to the parser                                         *)
(***************************************************************************)
MaxDims == 2
MaxParams == 2

\* class names, as their '/'-separated segments
ClassNames == {<<"java", "lang", "String">>, <<"Foo">>, <<"void">>}

PrimitiveLetters == {"B", "C", "D", "F", "I", "J", "S", "Z"}

\* a JVM type: a primitive letter or a class reference, under dims array markers
Types ==
    [kind : {"prim"}, letter : PrimitiveLetters, dims : 0 .. MaxDims]
    \cup [kind : {"class"}, segs : ClassNames, dims : 0 .. MaxDims]

\* the types of the second and later parameters
MoreTypes ==
    {[kind |-> "prim", letter |-> "I", dims |-> 0],
     [kind |-> "prim", letter |-> "Z", dims |-> 2],
     [kind |-> "class", segs |-> <<"java", "lang", "String">>, dims |-> 1],
     [kind |-> "class", segs |-> <<"Foo">>, dims |-> 0]}

Void == [kind |-> "void"]

RECURSIVE Slashed(_)
\* the segments of a class name with '/' between them
Slashed(segs) ==
    IF Len(segs) <= 1 THEN segs
    ELSE <<Head(segs), "/">> \o Slashed(Tail(segs))

Markers(n) == [k \in 1 .. n |-> "["]

\* the descriptor text of a type
EncodeType(t) ==
    IF t.kind = "void" THEN <<"V">>
    ELSE IF t.kind = "prim" THEN Markers(t.dims) \o <<t.letter>>
    ELSE Markers(t.dims) \o <<"L">> \o Slashed(t.segs) \o <<";">>

EncodeTypes(ts) == Flatten([k \in 1 .. Len(ts) |-> EncodeType(ts[k])])

\* the descriptor text (<params>)<return>
EncodeDescriptor(params, ret) ==
    <<"(">> \o EncodeTypes(params) \o <<")">> \o EncodeType(ret)

ParamLists ==
    {<<>>} \cup {<<t>> \o rest : t \in Types,
                                 rest \in SeqsUpTo(MoreTypes, MaxParams - 1)}

GoodDescriptors ==
    {[kind |-> "good", params |-> ps, ret |-> r,
      text |-> EncodeDescriptor(ps, r)] :
        ps \in ParamLists, r \in {Void} \cup Types}

\* letters that name no primitive type (and are neither L nor V)
UnknownLetters == {"X", "Q"}

\* what may follow a class name in place of its ';'
Stops == {EOF, ")", "(", "[", ":", "."}

Flaws ==
    [kind : {"letter"}, letter : UnknownLetters]
    \cup [kind : {"unterminated"}, segs : ClassNames, slash : BOOLEAN, stop : Stops]

FlawText(f) ==
    IF f.kind = "letter" THEN <<f.letter>>
    ELSE <<"L">> \o Slashed(f.segs)
         \o (IF f.slash THEN <<"/">> ELSE <<>>)
         \o (IF f.stop = EOF THEN <<>> ELSE <<f.stop>>)

Suffixes == {<<>>, <<"V">>, <<")", "V">>, <<";", ")", "V">>, <<"I", ")", "V">>}

\* a descriptor with a flaw where a type is expected: well-formed up to the flaw
FlawedText(where, before, dims, f, after) ==
    <<"(">> \o EncodeTypes(before)
    \o (IF where = "return" THEN <<")">> ELSE <<>>)
    \o Markers(dims) \o FlawText(f)
    \o (IF f.kind = "unterminated" /\ f.stop = EOF THEN <<>> ELSE after)

FlawedDescriptors ==
    {[kind |-> "flawed", where |-> w, flaw |-> f,
      text |-> FlawedText(w, b, d, f, a)] :
        w \in {"param", "return"}, b \in SeqsUpTo(MoreTypes, 1),
        d \in 0 .. MaxDims, f \in Flaws, a \in Suffixes}

(***************************************************************************)
(* Run: the descriptor parser applied to one descriptor                    *)
(***************************************************************************)
Idle ==
    /\ test_cases = <<>>
    /\ method_locations = <<>>
    /\ folder = 0
    /\ reports = <<>>
    /\ raised = "none"

InitDesc ==
    /\ pc = "descriptor"
    /\ input \in GoodDescriptors \cup FlawedDescriptors
    /\ result = None
    /\ Idle

\* signature(description) and is_void(description)
ParseDescriptor ==
    /\ pc = "descriptor"
    /\ pc' = "done"
    /\ LET d == DESCRIPTION_PARSER(input.text)
       IN  IF d.ok
           THEN /\ result' = Some([signature |-> signature(input.text),
                                   is_void |-> is_void(input.text)])
                /\ raised' = "none"
           ELSE /\ result' = None
                /\ raised' = "ParseError"
    /\ UNCHANGED <<input, test_cases, method_locations, folder, reports>>

NextDesc == ParseDescriptor

SpecDesc == InitDesc /\ [][NextDesc]_vars

(***************************************************************************)
(* Claims about the descriptor parser                                      *)
(***************************************************************************)
\* the Java name of a primitive letter, as the specification lists them
JavaName(l) ==
    CASE l = "B" -> "byte"  [] l = "C" -> "char"  [] l = "D" -> "double"
      [] l = "F" -> "float" [] l = "I" -> "int"   [] l = "J" -> "long"
      [] l = "S" -> "short" [] l = "Z" -> "boolean"

\* the readable form of a type: Java name or dotted class name, one [] per marker
Readable(t) ==
    (IF t.kind = "prim" THEN JavaName(t.letter) ELSE JoinStr(".", t.segs))
    \o Repeat("[]", t.dims)

ReadableParams(ps) ==
    "(" \o JoinStr(",", [k \in 1 .. Len(ps) |-> Readable(ps[k])]) \o ")"

ParsedGood == pc = "done" /\ input.kind = "good"

\* C9 (parameters only): a well-formed descriptor parses, and its parameter
\* types come out in order in their readable form.
C9_ParametersReadable ==
    ParsedGood =>
        /\ raised = "none"
        /\ result[1].signature = ReadableParams(input.params)

\* C9: for every descriptor built from the primitive letters, array markers
\* and class references, the parser returns the parameter types in order in
\* readable form, and is_void is true exactly when the return type is V.
C9_DescriptorParsed ==
    ParsedGood =>
        /\ raised = "none"
        /\ result[1].signature = ReadableParams(input.params)
        /\ result[1].is_void = (input.ret = Void)

\* C10: a descriptor with an unrecognized primitive letter or an unterminated
\* class reference where a type is expected fails with a ParseError and
\* returns no result.
C10_FlawedDescriptorFails ==
    (pc = "done" /\ input.kind = "flawed") =>
        /\ raised = "ParseError"
        /\ result = None

C10_Witness ==
    /\ pc = "done"
    /\ input.kind = "flawed"
    /\ input.flaw.kind = "unterminated"
    /\ input.where = "param"
    /\ raised = "ParseError"

C10_WitnessLetter ==
    /\ pc = "done"
    /\ input.kind = "flawed"
    /\ input.flaw.kind = "letter"
    /\ raised = "ParseError"

(***************************************************************************)
(* Run: load_test_cases applied to one mutation report                     *)
(***************************************************************************)
MaxIdLen == 4
MaxTests == 2

IdChars == {"a", "b", ".", "(", ")", "["}

\* identifiers as the mutation tool writes them: Class.Class, Class.method(Class),
\* Class.method[1](Class), Class.method, and a bare word
WrittenIds ==
    {<<"p", ".", "T", ".", "p", ".", "T">>,
     <<"p", ".", "T", ".", "m", "(", "p", ".", "T", ")">>,
     <<"p", ".", "T", ".", "m", "[", "1", "]", "(", "p", ".", "T", ")">>,
     <<"p", ".", "T", ".", "m">>,
     <<"T">>}

FirstIds == (SeqsUpTo(IdChars, MaxIdLen) \ {<<>>}) \cup WrittenIds

MoreIds == {<<"T">>, <<"a", ".", "b", "(", "a", ")">>, <<"a", ".", "a">>}

TestLists ==
    {<<id>> \o rest : id \in FirstIds, rest \in SeqsUpTo(MoreIds, MaxTests - 1)}

MethodM == [package |-> "p", class |-> "K", name |-> "m",
            description |-> <<"(", "I", ")", "V">>]

InitTests ==
    /\ pc = "report"
    /\ input \in {[report |-> <<[status |-> SURVIVED, mutator |-> "void",
                                 method |-> MethodM, tests |-> ts]>>] :
                      ts \in TestLists}
    /\ result = None
    /\ Idle

\* test_cases = load_test_cases(...)
ApplyLoadTestCases ==
    /\ pc = "report"
    /\ pc' = "done"
    /\ LET loaded == load_test_cases(input.report)
       IN  /\ raised' = loaded.raised
           /\ test_cases' = loaded.index
    /\ UNCHANGED <<input, result, method_locations, folder, reports>>

NextTests == ApplyLoadTestCases

SpecTests == InitTests /\ [][NextTests]_vars

(***************************************************************************)
(* Claims about test identifiers                                           *)
(***************************************************************************)
\* the identifier has the shape c.c
ClassShaped(id) ==
    \E h \in 1 .. Len(id) :
        id = SubSeq(id, 1, h) \o <<".">> \o SubSeq(id, 1, h)

\* the identifier has the shape class.method, class.method(), class.method(class),
\* class.method[...]() or class.method[...](class), the method holding no '['
CaseShaped(id) ==
    \E i \in 1 .. Len(id), j \in 1 .. Len(id) + 1 :
        /\ j >= i + 3
        /\ Tok(id, i + 1) = "."
        /\ \A k \in (i + 2) .. (j - 1) : id[k] # "["
        /\ \E open \in j .. Len(id) + 1 :
              /\ \/ open = j
                 \/ open >= j + 2 /\ id[j] = "[" /\ id[open - 1] = "]"
              /\ SubSeq(id, open, Len(id)) \in
                    {<<>>, <<"(", ")">>, <<"(">> \o SubSeq(id, 1, i) \o <<")">>}
              /\ (SubSeq(id, open, Len(id)) = <<>> => open = j)

IsTestCase(t) ==
    \/ DOMAIN t = {"class"}
    \/ DOMAIN t = {"class", "method"}

\* C3: for every test identifier listed for a survived mutant, load_test_cases
\* does not raise; it yields, in the report's order, one TestCase per
\* identifier, a bare class or a (class, method) pair, and an identifier that
\* matches neither pattern becomes a bare class named by the whole string.
C3_TestCasesParsed ==
    pc = "done" =>
        LET ids   == input.report[1].tests
            tests == DictGet(test_cases,
                             mutation_id("p", "K", "m", MethodM.description, "void"),
                             <<>>)
        IN  /\ raised = "none"
            /\ Len(tests) = Len(ids)
            /\ \A k \in 1 .. Len(ids) :
                  /\ IsTestCase(tests[k])
                  /\ (~ClassShaped(ids[k]) /\ ~CaseShaped(ids[k]))
                        => tests[k] = [class |-> Cat(ids[k])]

\* C3 without the identifiers of the shape c.c: every other identifier list
\* is loaded without an exception, one TestCase per identifier, in order.
C3_OtherIdsParsed ==
    (pc = "done" /\ \A k \in DOMAIN input.report[1].tests :
                        ~ClassShaped(input.report[1].tests[k])) =>
        LET ids   == input.report[1].tests
            tests == DictGet(test_cases,
                             mutation_id("p", "K", "m", MethodM.description, "void"),
                             <<>>)
        IN  /\ raised = "none"
            /\ Len(tests) = Len(ids)
            /\ \A k \in 1 .. Len(ids) :
                  /\ IsTestCase(tests[k])
                  /\ (CaseShaped(ids[k]) <=> DOMAIN tests[k] = {"class", "method"})
                  /\ ~CaseShaped(ids[k]) => tests[k] = [class |-> Cat(ids[k])]

(***************************************************************************)
(* Run: load_diffs applied to one diff.json                                *)
(***************************************************************************)
MaxDiffs == 3

Branches ==
    [kind : {"description"}, description : {"0"}, invocation : {<<"3">>},
     target : {<<"result">>, <<"that">>, <<"1">>}]
    \cup [kind : {"expression"}, index : {<<"2">>, <<"1", "2">>}]
    \cup [kind : {"exception"}]

\* the pointcuts of the grammar class|method|(branch)(|field)?(|#size|#length)?
PointcutShapes ==
    [branch : Branches, field : {None, Some("field")},
     accessor : {None, Some("size"), Some("length")}]

EncodePointcut(p) ==
    <<"Foo", "|", "bar", "|">>
    \o (CASE p.branch.kind = "description" ->
                <<p.branch.description, "|">> \o p.branch.invocation
                \o <<"|", "#">> \o p.branch.target
          [] p.branch.kind = "expression" -> p.branch.index
          [] p.branch.kind = "exception" -> <<"!">>)
    \o (IF p.field = None THEN <<>> ELSE <<"|", p.field[1]>>)
    \o (IF p.accessor = None THEN <<>> ELSE <<"|", "#", p.accessor[1]>>)

\* text that may follow a pointcut
Extras == {<<>>, <<"|", "junk">>, <<"x">>, <<"|", "#", "size">>}

\* strings the pattern does not match at all
Unmatched ==
    {<<>>, <<"Foo">>, <<"Foo", "|", "bar">>, <<"Foo", "|", "bar", "|">>,
     <<"Foo", "|", "bar", "|", "x">>, <<"|", "bar", "|", "2">>}

PointcutStrings ==
    {EncodePointcut(p) \o x : p \in PointcutShapes, x \in Extras} \cup Unmatched

FirstEntries ==
    [pointcut : PointcutStrings,
     expected : {<<>>, <<"e1">>, <<"e1", "e2">>},
     unexpected : {<<>>, <<"u1", "u2">>}]

MoreEntries ==
    {[pointcut |-> <<"Foo", "|", "bar", "|", "2">>,
      expected |-> <<"e2">>, unexpected |-> <<"u2">>],
     [pointcut |-> <<"Foo", "|", "bar", "|", "2">>,
      expected |-> <<"e1", "e2">>, unexpected |-> <<"u2">>],
     [pointcut |-> <<"Foo", "|", "bar", "|", "!">>,
      expected |-> <<"e3">>, unexpected |-> <<"u3", "u1">>],
     [pointcut |-> <<"Foo", "|", "bar", "|", "!">>,
      expected |-> <<>>, unexpected |-> <<"u2">>]}

MoreLists == SeqsUpTo(MoreEntries, MaxDiffs - 1)

InitDiffs ==
    /\ pc = "diffs"
    /\ \/ input = [diff |-> Missing]
       \/ input = [diff |-> File(<<>>)]
       \/ \E e \in FirstEntries, rest \in MoreLists :
             \/ input = [diff |-> File(<<e>> \o rest)]
             \/ input = [diff |-> File(rest \o <<e>>)]
    /\ result = None
    /\ Idle

\* diffs = load_diffs(hint_folder)
LoadDiffFile ==
    /\ pc = "diffs"
    /\ pc' = "done"
    /\ LET loaded == load_diffs(input.diff)
       IN  /\ raised' = loaded.raised
           /\ result' = loaded.diffs
    /\ UNCHANGED <<input, test_cases, method_locations, folder, reports>>

NextDiffs == LoadDiffFile

SpecDiffs == InitDiffs /\ [][NextDiffs]_vars

(***************************************************************************)
(* Claims about the pointcut pattern and the Diff Index                    *)
(***************************************************************************)
RECURSIVE SplitBars(_, _)
\* the parts of a string between its '|' characters, cur being the part so far
SplitBars(s, cur) ==
    IF s = <<>> THEN <<cur>>
    ELSE IF Head(s) = "|" THEN <<cur>> \o SplitBars(Tail(s), <<>>)
    ELSE SplitBars(Tail(s), Append(cur, Head(s)))

AllDigits(part) == part # <<>> /\ \A k \in DOMAIN part : part[k] \in Digits

IsTarget(part) ==
    \/ part \in {<<"#", "result">>, <<"#", "that">>}
    \/ Len(part) >= 2 /\ part[1] = "#" /\ AllDigits(Tail(part))

IsFieldPart(part) == part # <<>> /\ \A k \in DOMAIN part : part[k] # "#"

IsAccessor(part) == part \in {<<"#", "size">>, <<"#", "length">>}

\* the optional parts after the branch: (|field)?(|#size|#length)?
IsSuffix(parts) ==
    \/ parts = <<>>
    \/ Len(parts) = 1 /\ (IsFieldPart(parts[1]) \/ IsAccessor(parts[1]))
    \/ Len(parts) = 2 /\ IsFieldPart(parts[1]) /\ IsAccessor(parts[2])

\* the whole string is class|method|(branch)(|field)?(|#size|#length)?
Conforms(s) ==
    LET parts == SplitBars(s, <<>>)
        n     == Len(parts)
    IN  /\ n >= 3
        /\ parts[1] # <<>>
        /\ parts[2] # <<>>
        /\ \/ /\ AllDigits(parts[3]) \/ parts[3] = <<"!">>
              /\ IsSuffix(SubSeq(parts, 4, n))
           \/ /\ n >= 5
              /\ parts[3] # <<>>
              /\ AllDigits(parts[4])
              /\ IsTarget(parts[5])
              /\ IsSuffix(SubSeq(parts, 6, n))

Loaded == pc = "done" /\ raised = "none" /\ input.diff # Missing

\* the entries of diff.json with exactly one expected value
KeptIndices == {k \in DOMAIN input.diff[1] : Len(input.diff[1][k].expected) = 1}

\* C4: load_diffs produces a structured pointcut for a kept entry only when
\* the entry's whole pointcut string conforms to the grammar.
C4_OnlyWholeStringsParsed ==
    Loaded => \A k \in KeptIndices : Conforms(input.diff[1][k].pointcut)

\* C4 (what the pattern does): a kept entry whose pointcut does not even
\* start with a conforming string makes load_diffs fail.
C4_UnmatchedFails ==
    (pc = "done" /\ input.diff # Missing
        /\ \E k \in KeptIndices :
              \A n \in 0 .. Len(input.diff[1][k].pointcut) :
                  ~Conforms(SubSeq(input.diff[1][k].pointcut, 1, n)))
    => raised = "AttributeError"

\* C8 as stated: an entry without exactly one expected value is absent from
\* the Diff Index, and every entry with exactly one is present under its
\* pointcut string with its own expected value and its first observed value.
C8_EveryKeptEntryStored ==
    Loaded =>
        \A k \in DOMAIN input.diff[1] :
            LET e   == input.diff[1][k]
                key == Cat(e.pointcut)
            IN  IF Len(e.expected) = 1
                THEN /\ key \in DictKeys(result)
                     /\ DictGet(result, key, None).expected = e.expected[1]
                     /\ DictGet(result, key, None).observed = e.unexpected[1]
                ELSE key \notin DictKeys(result)

\* C8 amended: when load_diffs returns, the keys of the Diff Index are exactly
\* the pointcut strings of the entries with exactly one expected value, each
\* once, in the order of their first such entry, and the record under a key
\* holds the expected value and the first observed value of the last such
\* entry with that pointcut string.
C8_LastKeptEntryStored ==
    Loaded =>
        LET entries == input.diff[1]
            keyOf(k) == Cat(entries[k].pointcut)
            first(key) == CHOOSE k \in KeptIndices :
                              /\ keyOf(k) = key
                              /\ \A j \in KeptIndices : keyOf(j) = key => k <= j
            last(key) == CHOOSE k \in KeptIndices :
                              /\ keyOf(k) = key
                              /\ \A j \in KeptIndices : keyOf(j) = key => j <= k
        IN  /\ DictKeys(result) = {keyOf(k) : k \in KeptIndices}
            /\ Len(result) = Cardinality(DictKeys(result))
            /\ \A a, b \in DOMAIN result :
                  a < b => first(result[a].key) < first(result[b].key)
            /\ \A a \in DOMAIN result :
                  /\ result[a].value.expected = entries[last(result[a].key)].expected[1]
                  /\ result[a].value.observed = entries[last(result[a].key)].unexpected[1]

\* two kept entries share a pointcut string and differ in their expected value,
\* and a third entry has two expected values
C8_Witness ==
    /\ Loaded
    /\ \E j, k \in KeptIndices :
          /\ j < k
          /\ Cat(input.diff[1][j].pointcut) = Cat(input.diff[1][k].pointcut)
          /\ input.diff[1][j].expected # input.diff[1][k].expected
    /\ \E k \in DOMAIN input.diff[1] : Len(input.diff[1][k].expected) = 2
    /\ result # <<>>

\* the number of the named groups of a groupdict that hold a value
Populated(g, names) == Cardinality({n \in names : g[n] # None})

\* the groups of exactly one branch hold a value: description with invocation
\* and one of result/that/argument, or expression, or exception
OneBranch(g) ==
    \/ /\ g.description # None /\ g.invocation # None
       /\ Populated(g, {"result", "that", "argument"}) = 1
       /\ Populated(g, {"expression", "exception"}) = 0
    \/ /\ Populated(g, {"expression", "exception"}) = 1
       /\ Populated(g, {"description", "invocation", "result", "that", "argument"}) = 0

\* the groups a pointcut of the grammar is written from
GroupsOf(p) ==
    LET b == p.branch
        branch ==
            CASE b.kind = "description" ->
                    [NoGroups EXCEPT
                        !.description = Some(b.description),
                        !.invocation = Some(Cat(b.invocation)),
                        !.result = IF b.target = <<"result">> THEN Some("result") ELSE None,
                        !.that = IF b.target = <<"that">> THEN Some("that") ELSE None,
                        !.argument = IF b.target \in {<<"result">>, <<"that">>}
                                     THEN None ELSE Some(Cat(b.target))]
              [] b.kind = "expression" ->
                    [NoGroups EXCEPT !.expression = Some(Cat(b.index))]
              [] b.kind = "exception" ->
                    [NoGroups EXCEPT !.exception = Some("!")]
    IN  [branch EXCEPT
            !.class = Some("Foo"),
            !.method = Some("bar"),
            !.field = p.field,
            !.size = IF p.accessor = Some("size") THEN Some("size") ELSE None,
            !.length = IF p.accessor = Some("length") THEN Some("length") ELSE None]

\* C11: every pointcut the pattern produces has class and method and exactly
\* one branch populated: description with invocation and exactly one of
\* result/that/argument, or expression, or exception; at most one of size
\* and length; and a string written from the grammar gives back its branch,
\* its field and its size/length, each whatever the others are.
C11_OneBranchAndSuffixes ==
    (pc = "done" /\ raised = "none") =>
        \A a \in DOMAIN result :
            /\ result[a].value.pointcut.class # None
            /\ result[a].value.pointcut.method # None
            /\ OneBranch(result[a].value.pointcut)
            /\ Populated(result[a].value.pointcut, {"size", "length"}) <= 1
            /\ \A p \in PointcutShapes :
                  result[a].key = Cat(EncodePointcut(p))
                      => result[a].value.pointcut = GroupsOf(p)

\* "Foo|bar|0|3|#result|field|#size" has been parsed: the description branch
\* with a field and a size
C11_Witness ==
    /\ pc = "done"
    /\ raised = "none"
    /\ \E a \in DOMAIN result :
          /\ result[a].key = "Foo|bar|0|3|#result|field|#size"
          /\ result[a].value.pointcut.description = Some("0")
          /\ result[a].value.pointcut.invocation = Some("3")
          /\ result[a].value.pointcut.result = Some("result")
          /\ result[a].value.pointcut.field = Some("field")
          /\ result[a].value.pointcut.size = Some("size")
          /\ result[a].value.pointcut.expression = None

(***************************************************************************)
(* Artifacts of a project                                                  *)
(***************************************************************************)
MaxHints == 2
MaxFolders == 2
MaxMutants == 2

IntType == [kind |-> "prim", letter |-> "I", dims |-> 0]

LongType == [kind |-> "prim", letter |-> "J", dims |-> 0]

BooleanType == [kind |-> "prim", letter |-> "Z", dims |-> 0]

\* the descriptors of the methods of the project, and one that does not parse
Descriptors ==
    {[params |-> <<IntType>>, ret |-> Void], [params |-> <<LongType>>, ret |-> Void],
     [params |-> <<IntType>>, ret |-> BooleanType], [params |-> <<>>, ret |-> Void]}

Text(params, ret) == EncodeDescriptor(params, ret)

Unparsable == <<"(", "L", "Foo", ")", "V">>

\* test identifiers: T.t, T.t(T), a bare word, and the class-level T.T
IdCase == <<"T", ".", "t">>

IdCaseParams == <<"T", ".", "t", "(", "T", ")">>

IdWord == <<"T">>

IdClass == <<"T", ".", "T">>

\* a raw entry of the test list of mutation.json
Raw(id) == [raw |-> Cat(id)]

\* mutation.json of the mutants p.K.m(I)V / void and p.K.n(I)Z / true, and of
\* a mutant whose descriptor does not parse
MutationA ==
    [package |-> "p", class |-> "K", method |-> "m",
     description |-> Text(<<IntType>>, Void), mutator |-> "void",
     tests |-> <<Raw(IdCaseParams)>>]

MutationB ==
    [package |-> "p", class |-> "K", method |-> "n",
     description |-> Text(<<IntType>>, BooleanType), mutator |-> "true",
     tests |-> <<Raw(IdWord), Raw(IdCase)>>]

MutationBad == [MutationA EXCEPT !.description = Unparsable]

\* another mutant of the method of MutationB
MutationBFalse == [MutationB EXCEPT !.mutator = "false"]

MutationFiles == {Missing, File(MutationA), File(MutationB), File(MutationBad)}

\* entries of mutations.json
Reported(m, status, tests) ==
    [status |-> status, mutator |-> m.mutator,
     method |-> [package |-> m.package, class |-> m.class, name |-> m.method,
                 description |-> m.description],
     tests |-> tests]

ReportEntries ==
    {Reported(MutationA, SURVIVED, <<IdCase, IdWord>>),
     Reported(MutationA, "KILLED", <<IdCase>>),
     Reported(MutationB, SURVIVED, <<IdCaseParams>>),
     Reported(MutationB, "KILLED", <<IdClass>>),
     Reported(MutationB, SURVIVED, <<IdClass>>)}

\* <mutation> elements of mutations.xml
Located(m, status, line) ==
    [status |-> status, mutatedClass |-> m.package \o "." \o m.class,
     mutatedMethod |-> m.method, methodDescription |-> m.description,
     mutator |-> m.mutator, lineNumber |-> line]

XmlFiles ==
    {Missing,
     File(<<Located(MutationA, SURVIVED, <<"1", "2">>)>>),
     File(<<Located(MutationA, "KILLED", <<"3">>),
            Located(MutationB, SURVIVED, <<"7">>)>>),
     File(<<Located(MutationB, SURVIVED, <<"7">>),
            Located(MutationBFalse, SURVIVED, <<"8">>)>>)}

\* methods named by entry-points and accessors
Method(class, method, d) == [class |-> class, method |-> method, desc |-> d]

EntryA == Method("p.K", "m", Text(<<IntType>>, Void))

EntryALong == Method("p.K", "m", Text(<<LongType>>, Void))

EntryABoolean == Method("p.K", "m", Text(<<IntType>>, BooleanType))

EntryNoPackage == Method("K", "m", Text(<<IntType>>, Void))

EntryX == Method("p.T", "t", Text(<<>>, Void))

EntryBad == Method("p.T", "t", Unparsable)

EntryPointLists ==
    {None, Some(<<EntryA, EntryX>>), Some(<<EntryX>>),
     Some(<<EntryALong, EntryABoolean>>), Some(<<EntryNoPackage>>),
     Some(<<EntryBad>>)}

AccessorLists == {None, Some(<<EntryA>>), Some(<<EntryX>>)}

PointcutFirst == <<"Foo", "|", "bar", "|", "2">>

PointcutSecond == <<"Foo", "|", "bar", "|", "!">>

PointcutAbsent == <<"Foo", "|", "bar", "|", "9">>

HintPointcuts == {None, Some(PointcutSecond), Some(PointcutAbsent)}

Item(type, entries, location, accessors, pointcut) ==
    [hint_type |-> type, entry_points |-> entries, location |-> location,
     accessors |-> accessors, pointcut |-> pointcut]

\* the items of hints.json
Items ==
    {Item("infection", e, None, a, p) :
        e \in EntryPointLists, a \in AccessorLists, p \in HintPointcuts}
    \cup {Item("observation", None, Some("location"), a, p) :
        a \in AccessorLists, p \in HintPointcuts}
    \cup {Item("observation", None, None, None, None)}
    \cup {Item("execution", None, None, None, p) : p \in HintPointcuts}

MoreItems ==
    {Item("observation", None, Some("location"), None, Some(PointcutSecond)),
     Item("infection", Some(<<EntryA>>), None, Some(<<EntryX>>), None)}

\* hints.json holding one hint object
HintObject(item) == [is_list |-> FALSE, object |-> Some(item), list |-> <<>>]

\* hints.json holding a list of hints
HintList(items) == [is_list |-> TRUE, object |-> None, list |-> items]

HintFiles ==
    {HintObject(i) : i \in Items}
    \cup {HintList(<<>>)}
    \cup {HintList(<<i>> \o rest) :
            i \in Items, rest \in SeqsUpTo(MoreItems, MaxHints - 1)}

Diff(pointcut, expected, unexpected) ==
    [pointcut |-> pointcut, expected |-> expected, unexpected |-> unexpected]

\* diff.json: absent, empty, with dropped entries only, with kept entries,
\* and with a kept entry whose pointcut the pattern does not match
DiffFiles ==
    {Missing,
     File(<<>>),
     File(<<Diff(<<"Foo">>, <<"e1", "e2">>, <<"u1">>),
            Diff(PointcutSecond, <<>>, <<"u1">>)>>),
     File(<<Diff(PointcutFirst, <<"e1">>, <<"u1">>)>>),
     File(<<Diff(PointcutFirst, <<"e1">>, <<"u1">>),
            Diff(PointcutSecond, <<"e2">>, <<"u2">>)>>),
     File(<<Diff(PointcutSecond, <<"e1", "e2">>, <<"u1">>),
            Diff(PointcutSecond, <<"e2">>, <<"u2">>),
            Diff(PointcutFirst, <<"e1">>, <<"u1">>),
            Diff(PointcutSecond, <<"e3">>, <<"u3">>)>>),
     File(<<Diff(<<"Foo", "|", "bar">>, <<"e1">>, <<"u1">>)>>)}

HintFolder(mutation, hints, diff) ==
    [mutation |-> mutation, hints |-> hints, diff |-> diff]

Started ==
    /\ pc = "start"
    /\ result = None
    /\ Idle

(***************************************************************************)
(* Run: one hint folder of any content, under a loaded project             *)
(***************************************************************************)
InitHints ==
    /\ \E m \in MutationFiles, h \in HintFiles, d \in DiffFiles,
          x \in XmlFiles,
          r \in {<<>>,
                 <<Reported(MutationA, SURVIVED, <<IdCase, IdWord>>)>>,
                 <<Reported(MutationA, "KILLED", <<IdCase>>),
                   Reported(MutationB, SURVIVED, <<IdCaseParams>>)>>} :
          input = [report |-> File(r), xml |-> x,
                   folders |-> <<HintFolder(m, h, d)>>]
    /\ Started

SpecHints == InitHints /\ [][Next]_vars

(***************************************************************************)
(* Run: a project with several hint folders                                *)
(***************************************************************************)
InfectionHints ==
    HintList(<<Item("infection", Some(<<EntryA, EntryX>>), None, None, None)>>)

ObservationHint ==
    HintObject(Item("observation", None, Some("location"), None, Some(PointcutSecond)))

ProjectFolders ==
    {HintFolder(File(MutationA), InfectionHints, Missing),
     HintFolder(File(MutationB), ObservationHint,
                File(<<Diff(PointcutFirst, <<"e1">>, <<"u1">>),
                       Diff(PointcutSecond, <<"e2">>, <<"u2">>)>>)),
     HintFolder(Missing, InfectionHints, Missing),
     HintFolder(File(MutationA), ObservationHint,
                File(<<Diff(<<"Foo", "|", "bar">>, <<"e1">>, <<"u1">>)>>)),
     HintFolder(File(MutationBad), InfectionHints, Missing)}

Init ==
    /\ \E r \in {Missing} \cup {File(l) : l \in SeqsUpTo(ReportEntries, MaxMutants)},
          x \in XmlFiles,
          fs \in SeqsUpTo(ProjectFolders, MaxFolders) :
          input = [report |-> r, xml |-> x, folders |-> fs]
    /\ Started

Spec == Init /\ [][Next]_vars


(***************************************************************************)
(* Claims about the diagnostic records                                     *)
(* reports[k] holds what was written for input.folders[k].                 *)
(***************************************************************************)
\* the items of hints.json of folder k, in the order get_hints reads them
ItemsOf(k) == hint_data(input.folders[k].hints)

\* the Diff Index of folder k
DiffIndexOf(k) == load_diffs(input.folders[k].diff).diffs

EntryId(e) ==
    mutation_id(e.method.package, e.method.class, e.method.name,
                e.method.description, e.mutator)

\* the identity of the mutant of mutation.json
MutantId(m) == mutation_id(m.package, m.class, m.method, m.description, m.mutator)

\* mutations.json has been loaded into test_cases
IndexLoaded == pc \in {"locations", "folders", "done"}

\* C2 as stated: a mutant whose status in the report is not SURVIVED is never
\* a key of the Mutation Index, and no record is ever emitted for it.
C2_NonSurvivorsAbsent ==
    IndexLoaded =>
        \A e \in Range(input.report[1]) :
            e.status # SURVIVED =>
                /\ EntryId(e) \notin DictKeys(test_cases)
                /\ \A k \in DOMAIN reports :
                      MutantId(input.folders[k].mutation[1]) = EntryId(e)
                          => reports[k] = <<>>

\* C2, amended: the keys of the Mutation Index are exactly the identities of
\* the SURVIVED entries of the report; get_hints does not look at the status,
\* and the records of a folder whose mutant is not in the index carry the
\* test list of mutation.json.
C2_IndexHoldsSurvivors ==
    IndexLoaded =>
        /\ DictKeys(test_cases) =
              {EntryId(e) : e \in {x \in Range(input.report[1]) : x.status = SURVIVED}}
        /\ \A k \in DOMAIN reports : \A n \in DOMAIN reports[k] :
              MutantId(input.folders[k].mutation[1]) \notin DictKeys(test_cases)
                  => reports[k][n].mutation.tests = input.folders[k].mutation[1].tests

\* records emitted for a mutant that the report lists as KILLED only
C2_Witness ==
    /\ IndexLoaded
    /\ \E k \in DOMAIN reports :
          /\ reports[k] # <<>>
          /\ MutantId(input.folders[k].mutation[1]) \notin DictKeys(test_cases)
          /\ \E e \in Range(input.report[1]) :
                /\ e.status = "KILLED"
                /\ EntryId(e) = MutantId(input.folders[k].mutation[1])

\* C5: an error while assembling one hint folder is fatal for that folder
\* only: when the run has ended, every hint folder of the list, those after
\* a failing one included, has been processed, unless the run stopped on a
\* top-level report (before the loop over the folders began).
C5_FailureIsPerFolder ==
    pc \in {"done", "aborted"} =>
        \/ folder = 0
        \/ Len(reports) = Len(input.folders)

\* the parameter types of a descriptor of the project
ParamsOf(text) == (CHOOSE d \in Descriptors : Text(d.params, d.ret) = text).params

\* package.class.method of the mutant, with its parameter types in readable form
MutatedName(m) ==
    m.package \o "." \o m.class \o "." \o m.method
        \o ReadableParams(ParamsOf(m.description))

\* class.method of an entry-point or accessor, with its parameter types in
\* readable form
EntryName(entry) ==
    entry.class \o "." \o entry.method \o ReadableParams(ParamsOf(entry.desc))

\* C6: for every infection hint, direct_access of the emitted record is true
\* exactly when the mutated method, package.class.method with its rendered
\* parameter types, is one of the resolved entry-points of the hint; an
\* accessors list replaces targets and leaves direct_access as it is.
C6_DirectAccess ==
    \A k \in DOMAIN reports : \A n \in DOMAIN reports[k] :
        ItemsOf(k)[n].hint_type = "infection" =>
            /\ reports[k][n].hint.direct_access =
                  Some(\E e \in DOMAIN ItemsOf(k)[n].entry_points[1] :
                          EntryName(ItemsOf(k)[n].entry_points[1][e])
                              = MutatedName(input.folders[k].mutation[1]))
            /\ ItemsOf(k)[n].accessors # None =>
                  reports[k][n].hint.targets =
                      Some([a \in DOMAIN ItemsOf(k)[n].accessors[1] |->
                               EntryName(ItemsOf(k)[n].accessors[1][a])])

\* an infection hint whose entry-points name the mutated method and whose
\* accessors do not: direct_access is true, targets are the accessors
C6_Witness ==
    \E k \in DOMAIN reports : \E n \in DOMAIN reports[k] :
        /\ ItemsOf(k)[n].hint_type = "infection"
        /\ ItemsOf(k)[n].accessors = Some(<<EntryX>>)
        /\ ItemsOf(k)[n].entry_points = Some(<<EntryA, EntryX>>)
        /\ input.folders[k].mutation[1].method = "m"
        /\ reports[k][n].hint.direct_access = Some(TRUE)
        /\ reports[k][n].hint.targets = Some(<<"p.T.t()">>)

\* diff.json is absent, an empty list, or holds only entries that the
\* one-expected-value filter drops
NoUsableDiff(diff) ==
    \/ diff = Missing
    \/ \A e \in DOMAIN diff[1] : Len(diff[1][e].expected) # 1

\* the methods of the list have descriptors of the project
Described(methods) ==
    \A e \in DOMAIN methods :
        \E d \in Descriptors : Text(d.params, d.ret) = methods[e].desc

\* mutation.json and hints.json of the folder hold what get_hints reads
OtherwiseSound(hint_folder) ==
    /\ hint_folder.mutation # Missing
    /\ \E d \in Descriptors :
          Text(d.params, d.ret) = hint_folder.mutation[1].description
    /\ \A n \in DOMAIN hint_data(hint_folder.hints) :
          LET item == hint_data(hint_folder.hints)[n]
          IN  /\ item.hint_type = "infection" =>
                    item.entry_points # None /\ Described(item.entry_points[1])
              /\ item.hint_type = "observation" => item.location # None
              /\ item.accessors # None => Described(item.accessors[1])

\* folder k is the folder the run has just dealt with or stopped on
LastProcessed(k) == k = Len(reports)

\* C7: when a hint folder has no usable diff, every record get_hints emits
\* has diff = null, also for a hint that declares a pointcut, and get_hints
\* raises none of the errors of load_diffs; when the other files of the
\* folder are sound it raises no error at all and emits one record per hint.
C7_NoDiffNoError ==
    \A k \in DOMAIN reports :
        NoUsableDiff(input.folders[k].diff) =>
            /\ \A n \in DOMAIN reports[k] : reports[k][n].diff = None
            /\ LastProcessed(k) => raised \notin {"AttributeError", "IndexError"}
            /\ (LastProcessed(k) /\ OtherwiseSound(input.folders[k])) =>
                  /\ raised = "none"
                  /\ Len(reports[k]) = Len(ItemsOf(k))

\* a folder whose diff.json holds only dropped entries, and a record with
\* diff = null for a hint that declares a pointcut
C7_Witness ==
    \E k \in DOMAIN reports : \E n \in DOMAIN reports[k] :
        /\ input.folders[k].diff # Missing
        /\ input.folders[k].diff[1] # <<>>
        /\ NoUsableDiff(input.folders[k].diff)
        /\ ItemsOf(k)[n].pointcut # None
        /\ reports[k][n].diff = None
        /\ raised = "none"


\* the decimal text of a line number below 100
LineText(n) ==
    LET digit(v) == <<"0", "1", "2", "3", "4", "5", "6", "7", "8", "9">>[v + 1]
    IN  IF n < 10 THEN <<digit(n)>> ELSE <<digit(n \div 10), digit(n % 10)>>

\* the number a lineNumber text stands for
LineValue(text) == CHOOSE n \in 0 .. 99 : LineText(n) = text

\* the <mutation> element is about the method of the mutant
SameMethod(element, m) ==
    /\ element.mutatedClass = m.package \o "." \o m.class
    /\ element.mutatedMethod = m.method
    /\ element.methodDescription = m.description

\* the SURVIVED <mutation> elements of mutations.xml about the method of m
SurvivorsOf(m) ==
    IF input.xml = Missing THEN {}
    ELSE {j \in DOMAIN input.xml[1] :
             /\ input.xml[1][j].status = SURVIVED
             /\ SameMethod(input.xml[1][j], m)}

\* C12 as stated: the line of a record emitted for a survived mutant of the
\* markup report is the lineNumber recorded for that same mutant.
C12_LineOfSameMutant ==
    \A k \in DOMAIN reports : \A n \in DOMAIN reports[k] :
        \A j \in SurvivorsOf(input.folders[k].mutation[1]) :
            input.xml[1][j].mutator = input.folders[k].mutation[1].mutator
                => reports[k][n].mutation.line
                       = Some(LineValue(input.xml[1][j].lineNumber))

\* C12, amended: the line of a record is the lineNumber of the last SURVIVED
\* <mutation> element of the markup report with the class, method and
\* descriptor of the mutant, whatever its mutator; it is null when there is
\* no such element or no markup report, the record being emitted all the same.
C12_LineOfLastSurvivor ==
    \A k \in DOMAIN reports : \A n \in DOMAIN reports[k] :
        LET hits == SurvivorsOf(input.folders[k].mutation[1])
        IN  IF hits = {}
            THEN reports[k][n].mutation.line = None
            ELSE reports[k][n].mutation.line =
                     Some(LineValue(input.xml[1][
                         CHOOSE j \in hits : \A i \in hits : i <= j].lineNumber))

\* two SURVIVED elements about one method record different lines, and a
\* record of the first one's mutant carries the line of the second
C12_Witness ==
    \E k \in DOMAIN reports : \E n \in DOMAIN reports[k] :
        \E i, j \in SurvivorsOf(input.folders[k].mutation[1]) :
            /\ i < j
            /\ input.xml[1][i].mutator = input.folders[k].mutation[1].mutator
            /\ input.xml[1][i].lineNumber # input.xml[1][j].lineNumber
            /\ reports[k][n].mutation.line = Some(LineValue(input.xml[1][j].lineNumber))

\* a record with a null line emitted in a project without mutations.xml
C12_WitnessAbsent ==
    \E k \in DOMAIN reports : \E n \in DOMAIN reports[k] :
        /\ input.xml = Missing
        /\ reports[k][n].mutation.line = None
        /\ raised = "none"


\* the entry of mutations.json is about the mutant of mutation.json: the same
\* package, class, method, descriptor and mutator
SameMutant(e, m) ==
    /\ e.method.package = m.package
    /\ e.method.class = m.class
    /\ e.method.name = m.method
    /\ e.method.description = m.description
    /\ e.mutator = m.mutator

\* the SURVIVED entries of mutations.json about the mutant m
ReportedSurvivors(m) ==
    {j \in DOMAIN input.report[1] :
        /\ input.report[1][j].status = SURVIVED
        /\ SameMutant(input.report[1][j], m)}

\* C13: the tests of an emitted record are the Mutation Index entry under the
\* identity of the mutant when the identity is in the index, and the raw test
\* list of mutation.json otherwise; the lookup finds the entry whenever the
\* report lists the mutant as SURVIVED, and the tests are then the TestCases
\* of the last such entry of the report, one per identifier.
C13_TestsFromIndexOrRaw ==
    \A k \in DOMAIN reports : \A n \in DOMAIN reports[k] :
        LET m == input.folders[k].mutation[1]
            found == {a \in DOMAIN test_cases : test_cases[a].key = MutantId(m)}
            listed == ReportedSurvivors(m)
        IN  /\ found = {} => reports[k][n].mutation.tests = m.tests
            /\ \A a \in found : reports[k][n].mutation.tests = test_cases[a].value
            /\ listed # {} =>
                  /\ found # {}
                  /\ LET e == input.report[1][CHOOSE j \in listed :
                                                 \A i \in listed : i <= j]
                     IN  /\ Len(reports[k][n].mutation.tests) = Len(e.tests)
                         /\ \A t \in DOMAIN e.tests :
                               "class" \in DOMAIN reports[k][n].mutation.tests[t]

\* a record whose tests come from the index and are not the raw list
C13_Witness ==
    \E k \in DOMAIN reports : \E n \in DOMAIN reports[k] :
        /\ ReportedSurvivors(input.folders[k].mutation[1]) # {}
        /\ reports[k][n].mutation.tests = <<[class |-> "T", method |-> "t"],
                                            [class |-> "T"]>>
        /\ input.folders[k].mutation[1].tests = <<Raw(IdCaseParams)>>


\* the hints written in hints.json of folder k: the list, or the one object
WrittenHints(k) ==
    IF input.folders[k].hints.is_list
    THEN input.folders[k].hints.list
    ELSE <<input.folders[k].hints.object[1]>>

\* get_hints has come to its end for folder k without an exception
Returned(k) == k < Len(reports) \/ raised = "none"

C14_WitnessObject ==
    \E k \in DOMAIN reports :
        /\ ~input.folders[k].hints.is_list
        /\ Len(reports[k]) = 1
        /\ raised = "none"

=============================================================================
